---- MODULE Spec2Model ----
(***************************************************************************)
(* The Creem webhook endpoint (src/src/app/api/webhook/creem/route.ts,     *)
(* POST) as a state machine over the three tables it reconciles:           *)
(* credit_usage, user_subscriptions and payment_history.  One invocation   *)
(* of POST is a process; every awaited store call is one step of it, so    *)
(* that overlapping invocations interleave exactly at the awaits.          *)
(***************************************************************************)
EXTENDS Integers, Sequences, FiniteSets, TLC

\* ------------------------------------------------------------------ bounds
\* Number of webhook deliveries one behaviour receives.
MaxEvents == 2
\* Number of store calls that may reject in one behaviour.
MaxFailures == 1
\* Number of payment_history rows inserted by other code than the handler.
MaxRows == 2

\* ------------------------------------------------------------- JS values
Undef == "undefined"
\* what a lookup that finds no row resolves to (a falsy, property-less value)
Null == [isNull |-> TRUE]
NoDate == -1
NoInt == -1

Users == {"u1", "u2"}
Procs == {1, 2}

\* `x || d` on strings: undefined and the empty string are falsy
OrDefault(x, d) == IF x = Undef \/ x = "" THEN d ELSE x

\* parseInt / parseFloat on the decimal strings the deliveries and the
\* store's COUNT(*) carry
parseInt(s) ==
  CASE s = "0" -> 0
    [] s = "1" -> 1
    [] s = "2" -> 2
    [] s = "3" -> 3
    [] s = "4" -> 4
    [] s = "5" -> 5
    [] s = "50" -> 50
    [] s = "100" -> 100
    [] s = "1000" -> 1000

parseFloat(s) == parseInt(s)

\* ------------------------------------------------------------------ Date
\* A Date is a day number, day 0 being 2024-01-01; months are 0-based as in JS.
IsLeap(y) == y % 4 = 0 /\ (y % 100 # 0 \/ y % 400 = 0)

DaysInYear(y) == IF IsLeap(y) THEN 366 ELSE 365

DaysInMonth(y, m) ==
  IF m = 1 THEN (IF IsLeap(y) THEN 29 ELSE 28)
  ELSE IF m \in {3, 5, 8, 10} THEN 30 ELSE 31

RECURSIVE DayFromYear(_)
DayFromYear(y) == IF y <= 2024 THEN 0 ELSE DayFromYear(y - 1) + DaysInYear(y - 1)

RECURSIVE DaysBeforeMonth(_, _)
DaysBeforeMonth(y, m) ==
  IF m = 0 THEN 0 ELSE DaysBeforeMonth(y, m - 1) + DaysInMonth(y, m - 1)

\* ECMAScript MakeDay: the month is normalised into the year, the day of the
\* month is added as an offset, so that Feb 31 is Mar 2 or Mar 3
MakeDay(y, m, d) ==
  DayFromYear(y + (m \div 12)) + DaysBeforeMonth(y + (m \div 12), m % 12) + d - 1

getFullYear(t) == CHOOSE y \in 2024..2027 : DayFromYear(y) <= t /\ t < DayFromYear(y + 1)

getMonth(t) ==
  LET y == getFullYear(t)
  IN  CHOOSE m \in 0..11 :
        /\ MakeDay(y, m, 1) <= t
        /\ t < MakeDay(y, m + 1, 1)

getDate(t) == t - MakeDay(getFullYear(t), getMonth(t), 1) + 1

setMonth(t, m) == MakeDay(getFullYear(t), m, getDate(t))

setFullYear(t, y) == MakeDay(y, getMonth(t), getDate(t))

\* the instants at which `new Date()` is evaluated
Clock == {MakeDay(2024, 0, 31), MakeDay(2024, 1, 29)}

\* --------------------------------------------------------------- tables
VARIABLES
  credit_usage,        \* rows of the credit-usage store, in insertion order
  user_subscriptions,  \* rows of the subscription store
  payment_history,     \* rows of table payment_history
  clock,               \* the latest instant `new Date()` returned
  inv,                 \* per invocation of POST: position, webhook, locals, answer
  received,            \* deliveries received so far
  failures,            \* store calls that rejected so far
  oneTimeOk,           \* one-time checkout.completed deliveries answered 200
  asked                \* the latest hasSuccessfulPaymentByUserId call and its answer

vars == <<credit_usage, user_subscriptions, payment_history, clock, inv,
          received, failures, oneTimeOk, asked>>

\* first index of a row of `table` satisfying the user key, 0 when there is none
FirstOf(table, u) ==
  IF \E i \in DOMAIN table : table[i].user_uuid = u
  THEN CHOOSE i \in DOMAIN table :
         /\ table[i].user_uuid = u
         /\ \A j \in DOMAIN table : table[j].user_uuid = u => i <= j
  ELSE 0

\* credit-usage store: getByUser(userId) -> CreditUsage | absent
getCreditUsageByUserId(table, u) ==
  IF FirstOf(table, u) = 0 THEN Null ELSE table[FirstOf(table, u)]

createCreditUsage(table, row) == Append(table, row)

updateCreditUsage(table, row) ==
  [i \in DOMAIN table |-> IF table[i].user_uuid = row.user_uuid THEN row ELSE table[i]]

\* subscription store: getByUser(userId) -> Subscription[] | empty
getUserSubscriptionByUserId(table, u) ==
  SelectSeq(table, LAMBDA r : r.user_uuid = u)

createUserSubscription(table, row) == Append(table, row)

\* update(partial Subscription keyed by userId or externalSubscriptionId): a
\* full record replaces the user's record, a status-only record sets the
\* status of the record with that external subscription id
updateUserSubscription(table, partial) ==
  [i \in DOMAIN table |->
     IF partial.current_period_start # NoDate
     THEN (IF table[i].user_uuid = partial.user_uuid THEN partial ELSE table[i])
     ELSE (IF table[i].stripe_subscription_id = partial.stripe_subscription_id
           THEN [table[i] EXCEPT !.status = partial.status]
           ELSE table[i])]

\* payment_history model: INSERT INTO payment_history ... RETURNING *
create(table, paymentHistory) == Append(table, paymentHistory)

\* payment-history service: the PaymentHistory the handler builds, as a row
createPaymentHistory(table, ph) ==
  create(table, [user_id |-> ph.user_uuid,
                 subscription_plans_id |-> ph.subscription_plan_id,
                 creem_payment_intent_id |-> ph.payment_intent_id,
                 amount |-> ph.amount,
                 interval |-> ph.interval,
                 status |-> ph.payment_status])

\* a query that looks for the status the webhook handler writes
hasCompletedPaymentByUserId(table, user_id) ==
  LET count == ToString(Cardinality({i \in DOMAIN table :
                 table[i].user_id = user_id /\ table[i].status = "completed"}))
  IN  parseInt(count) > 0

\* SELECT COUNT(*) as count ... WHERE user_id = $1 AND status = 'success': the
\* count comes back as text
hasSuccessfulPaymentByUserId(table, user_id) ==
  LET count == ToString(Cardinality({i \in DOMAIN table :
                 table[i].user_id = user_id /\ table[i].status = "success"}))
  IN  parseInt(count) > 0

\* ------------------------------------------------------------- the handler
ACTIVE == "active"
CANCELLED == "cancelled"
EXPIRED == "expired"

\* webhook.object.metadata?.<field>
Meta(webhook, field) ==
  IF webhook.hasMetadata THEN webhook.metadata[field] ELSE Undef

\* a classification that sends every product down the subscription branch
isSubscriptionAlways(webhook) == TRUE

isSubscription(webhook) == webhook.billing_type = "recurring"

\* a one-time path that always takes the tentative end now + 1 month
OneTimeNewPeriodEndTentative(currentDate, credit_usage_from_db) ==
  setMonth(currentDate, getMonth(currentDate) + 1)

\* one-time path: newPeriodEnd = now + 1 month, kept at the existing later end
OneTimeNewPeriodEnd(currentDate, credit_usage_from_db) ==
  LET newPeriodEnd == setMonth(currentDate, getMonth(currentDate) + 1)
  IN  IF credit_usage_from_db.period_end # NoDate
         /\ credit_usage_from_db.period_end > newPeriodEnd
      THEN credit_usage_from_db.period_end
      ELSE newPeriodEnd

\* a top-up with the subscription default of 1000 credits
OneTimeCreditDefault1000(webhook) ==
  parseInt(OrDefault(Meta(webhook, "credit"), "1000"))

OneTimeCredit(webhook) == parseInt(OrDefault(Meta(webhook, "credit"), "100"))

\* a top-up that replaces the total instead of adding to it
OneTimeCreditUsageReplacing(webhook, currentDate, newPeriodEnd, credit_usage_from_db) ==
  [user_uuid |-> webhook.request_id,
   credit_used |-> IF credit_usage_from_db = Null THEN 0
                   ELSE credit_usage_from_db.credit_used,
   credit_total |-> OneTimeCredit(webhook),
   period_start |-> IF credit_usage_from_db = Null THEN currentDate
                    ELSE credit_usage_from_db.period_start,
   period_end |-> newPeriodEnd]

\* a top-up that zeroes the usage as a renewal does
OneTimeCreditUsageResetting(webhook, currentDate, newPeriodEnd, credit_usage_from_db) ==
  [user_uuid |-> webhook.request_id,
   credit_used |-> 0,
   credit_total |-> IF credit_usage_from_db = Null THEN OneTimeCredit(webhook)
                    ELSE credit_usage_from_db.credit_total + OneTimeCredit(webhook),
   period_start |-> IF credit_usage_from_db = Null THEN currentDate
                    ELSE credit_usage_from_db.period_start,
   period_end |-> newPeriodEnd]

\* the record handed to createCreditUsage (no record) or updateCreditUsage
OneTimeCreditUsage(webhook, currentDate, newPeriodEnd, credit_usage_from_db) ==
  IF credit_usage_from_db = Null
  THEN [user_uuid |-> webhook.request_id,
        credit_used |-> 0,
        credit_total |-> OneTimeCredit(webhook),
        period_start |-> currentDate,
        period_end |-> newPeriodEnd]
  ELSE [user_uuid |-> webhook.request_id,
        credit_used |-> credit_usage_from_db.credit_used,
        credit_total |-> credit_usage_from_db.credit_total + OneTimeCredit(webhook),
        period_start |-> credit_usage_from_db.period_start,
        period_end |-> newPeriodEnd]

\* a row written with the status hasSuccessfulPaymentByUserId looks for
OneTimePaymentHistorySuccess(webhook) ==
  [user_uuid |-> webhook.request_id,
   subscription_plan_id |-> parseInt(OrDefault(Meta(webhook, "subscriptionPlanId"), "1")),
   amount |-> parseFloat(OrDefault(Meta(webhook, "amount"), "0")),
   interval |-> OrDefault(Meta(webhook, "interval"), "month"),
   payment_status |-> "success",
   payment_intent_id |-> webhook.id]

OneTimePaymentHistory(webhook) ==
  [user_uuid |-> webhook.request_id,
   subscription_plan_id |-> parseInt(OrDefault(Meta(webhook, "subscriptionPlanId"), "1")),
   amount |-> parseFloat(OrDefault(Meta(webhook, "amount"), "0")),
   interval |-> OrDefault(Meta(webhook, "interval"), "month"),
   payment_status |-> "completed",
   payment_intent_id |-> webhook.id]

\* a period that ignores metadata.interval
SubNewPeriodEndMonthly(webhook, currentDate) ==
  setMonth(currentDate, getMonth(currentDate) + 1)

\* subscription.paid: the period is anchored at now
SubNewPeriodEnd(webhook, currentDate) ==
  IF Meta(webhook, "interval") = "year"
  THEN setFullYear(currentDate, getFullYear(currentDate) + 1)
  ELSE setMonth(currentDate, getMonth(currentDate) + 1)

\* a subscription record written for the request-correlation id
SubUserSubscriptionOfRequestId(webhook, currentDate, newPeriodEnd) ==
  [user_uuid |-> webhook.request_id,
   subscription_plan_id |-> parseInt(OrDefault(Meta(webhook, "subscriptionPlanId"), "1")),
   status |-> ACTIVE,
   current_period_start |-> currentDate,
   current_period_end |-> newPeriodEnd,
   stripe_subscription_id |-> webhook.id,
   stripe_customer_id |-> webhook.customer_id]

\* the record handed to createUserSubscription / updateUserSubscription
SubUserSubscription(webhook, currentDate, newPeriodEnd) ==
  [user_uuid |-> webhook.metadata.userId,
   subscription_plan_id |-> parseInt(OrDefault(Meta(webhook, "subscriptionPlanId"), "1")),
   status |-> ACTIVE,
   current_period_start |-> currentDate,
   current_period_end |-> newPeriodEnd,
   stripe_subscription_id |-> webhook.id,
   stripe_customer_id |-> webhook.customer_id]

\* a renewal with the one-time default of 100 credits
SubCreditUsageDefault100(webhook, currentDate, newPeriodEnd) ==
  [user_uuid |-> webhook.metadata.userId,
   credit_used |-> 0,
   credit_total |-> parseInt(OrDefault(Meta(webhook, "credit"), "100")),
   period_start |-> currentDate,
   period_end |-> newPeriodEnd]

\* the record handed to createCreditUsage / updateCreditUsage on subscription.paid
SubCreditUsage(webhook, currentDate, newPeriodEnd) ==
  [user_uuid |-> webhook.metadata.userId,
   credit_used |-> 0,
   credit_total |-> parseInt(OrDefault(Meta(webhook, "credit"), "1000")),
   period_start |-> currentDate,
   period_end |-> newPeriodEnd]

\* subscription.canceled / subscription.expired: a status-only update
StatusUpdate(webhook, status) ==
  [user_uuid |-> webhook.metadata.userId,
   subscription_plan_id |-> NoInt,
   status |-> status,
   current_period_start |-> NoDate,
   current_period_end |-> NoDate,
   stripe_subscription_id |-> webhook.id,
   stripe_customer_id |-> Undef]

\* a cancellation that writes the status of an expiry
CanceledUpdateExpired(webhook) == StatusUpdate(webhook, EXPIRED)

CanceledUpdate(webhook) == StatusUpdate(webhook, CANCELLED)

ExpiredUpdate(webhook) == StatusUpdate(webhook, EXPIRED)

NoResponse == [status |-> 0, success |-> FALSE, text |-> ""]

SuccessResponse ==
  [status |-> 200, success |-> TRUE, text |-> "Webhook received successfully"]

FailureResponse ==
  [status |-> 500, success |-> FALSE, text |-> "Webhook processing failed"]

\* ------------------------------------------------------------ deliveries
EventTypes == {"checkout.completed", "subscription.paid", "subscription.canceled",
               "subscription.expired", "refund.created"}

EmptyMetadata ==
  [userId |-> Undef, credit |-> Undef, subscriptionPlanId |-> Undef,
   amount |-> Undef, interval |-> Undef]

OnlyUser(u) == [EmptyMetadata EXCEPT !.userId = u]

FullMetadata(u) ==
  [userId |-> u, credit |-> "50", subscriptionPlanId |-> "2",
   amount |-> "5", interval |-> "year"]

\* the provider's object id and customer id of a delivery
ObjectIds == {"obj_1", "obj_2"}

CustomerOf(id) == IF id = "obj_1" THEN "cus_1" ELSE "cus_2"

Event(eventType, billing_type, request_id, id, hasMetadata, metadata) ==
  [kind |-> "event", eventType |-> eventType, billing_type |-> billing_type,
   request_id |-> request_id, id |-> id, customer_id |-> CustomerOf(id),
   hasMetadata |-> hasMetadata, metadata |-> metadata]

\* a body that is no JSON, and a JSON body without object.product
Malformed(kind) ==
  [kind |-> kind, eventType |-> Undef, billing_type |-> Undef,
   request_id |-> Undef, id |-> Undef, customer_id |-> Undef,
   hasMetadata |-> FALSE, metadata |-> EmptyMetadata]

\* one-time checkout.completed deliveries
CheckoutBodies ==
  {Event("checkout.completed", "one-time", r, i, TRUE, m) :
     r \in Users, i \in ObjectIds, m \in {EmptyMetadata, FullMetadata("u1")}}
    \cup {Event("checkout.completed", "one-time", r, i, FALSE, EmptyMetadata) :
            r \in Users, i \in ObjectIds}

\* subscription.paid deliveries of a recurring product
PaidBodies ==
  {Event("subscription.paid", "recurring", "u2", i, TRUE, m) :
     i \in ObjectIds,
     m \in {EmptyMetadata} \cup {OnlyUser(u) : u \in Users}
             \cup {FullMetadata(u) : u \in Users}}
    \cup {Event("subscription.paid", "recurring", "u2", i, FALSE, EmptyMetadata) :
            i \in ObjectIds}

\* subscription.canceled and subscription.expired deliveries of a recurring product
EndBodies ==
  {Event(e, "recurring", "u2", i, TRUE, m) :
     e \in {"subscription.canceled", "subscription.expired"}, i \in ObjectIds,
     m \in {EmptyMetadata, FullMetadata("u1")}}
    \cup {Event(e, "recurring", "u2", i, FALSE, EmptyMetadata) :
            e \in {"subscription.canceled", "subscription.expired"}, i \in ObjectIds}

\* deliveries of an event type the product's branch does not handle
OtherBodies ==
  {Event(e, "one-time", "u1", "obj_1", TRUE, FullMetadata("u1")) :
     e \in EventTypes \ {"checkout.completed"}}
    \cup {Event(e, "recurring", "u1", "obj_1", TRUE, FullMetadata("u1")) :
            e \in {"checkout.completed", "refund.created"}}
    \cup {Event("refund.created", b, "u1", "obj_1", FALSE, EmptyMetadata) :
            b \in {"one-time", "recurring"}}

Bodies ==
  {Malformed("invalid_json"), Malformed("no_product")}
    \cup CheckoutBodies \cup PaidBodies \cup EndBodies \cup OtherBodies

\* ---------------------------------------------------------- invocations
Snapshot ==
  [credit_usage |-> credit_usage, user_subscriptions |-> user_subscriptions,
   payment_history |-> payment_history]

\* what an invocation remembers of the delivery answered before its own, when
\* that was a checkout.completed or subscription.paid delivery answered 200
NoPrevious ==
  [webhook |-> Malformed("invalid_json"), currentDate |-> NoDate,
   response |-> NoResponse, credit_usage |-> <<>>, rows |-> 0]

Previous(locals) ==
  IF locals.response = SuccessResponse
     /\ locals.webhook.eventType \in {"checkout.completed", "subscription.paid"}
     /\ locals.currentDate # NoDate
  THEN [webhook |-> locals.webhook, currentDate |-> locals.currentDate,
        response |-> locals.response,
        credit_usage |-> locals.pre.credit_usage,
        rows |-> Len(locals.pre.payment_history)]
  ELSE NoPrevious

Idle ==
  [pc |-> "idle", webhook |-> Malformed("invalid_json"), currentDate |-> NoDate,
   newPeriodEnd |-> NoDate, credit_usage_from_db |-> Null,
   response |-> NoResponse, threw |-> FALSE, rejected |-> FALSE,
   rejectedAt |-> "", prev |-> NoPrevious,
   pre |-> [credit_usage |-> <<>>, user_subscriptions |-> <<>>,
            payment_history |-> <<>>]]

\* the positions at which an invocation awaits a store call
StoreCalls ==
  {"getCreditUsage", "createCreditUsage", "updateCreditUsage",
   "createPaymentHistory", "getUserSubscription", "createUserSubscription",
   "updateUserSubscription"}

\* return NextResponse.json({success: true, ...})
Return(p, locals) ==
  /\ inv' = [inv EXCEPT ![p] = [locals EXCEPT !.pc = "done", !.response = SuccessResponse]]
  /\ oneTimeOk' = IF ~isSubscription(locals.webhook)
                     /\ locals.webhook.eventType = "checkout.completed"
                  THEN oneTimeOk + 1 ELSE oneTimeOk
  /\ UNCHANGED asked

\* a catch block that acknowledges the delivery all the same
CatchAcknowledging(p, locals) ==
  /\ inv' = [inv EXCEPT ![p] = [locals EXCEPT !.pc = "done", !.threw = TRUE,
                                              !.response = SuccessResponse]]
  /\ UNCHANGED <<oneTimeOk, asked>>

\* catch (error) { return NextResponse.json({error: ...}, {status: 500}) }
Catch(p, locals) ==
  /\ inv' = [inv EXCEPT ![p] = [locals EXCEPT !.pc = "done", !.threw = TRUE,
                                              !.response = FailureResponse]]
  /\ UNCHANGED <<oneTimeOk, asked>>

Await(p, locals, call) ==
  /\ inv' = [inv EXCEPT ![p] = [locals EXCEPT !.pc = call]]
  /\ UNCHANGED <<oneTimeOk, asked>>

\* webhook.object.metadata.userId, read without `?.`
ReadsUserId(webhook) ==
  isSubscription(webhook)
    /\ webhook.eventType \in {"subscription.paid", "subscription.canceled",
                              "subscription.expired"}

\* The invocation from the request to its first awaited store call.
Receive(p, body, now) ==
  /\ inv[p].pc \in {"idle", "done"}
  /\ received < MaxEvents
  /\ now >= clock
  /\ received' = received + 1
  /\ clock' = now
  /\ UNCHANGED <<credit_usage, user_subscriptions, payment_history, failures>>
  /\ LET locals == [Idle EXCEPT !.webhook = body, !.pre = Snapshot,
                                !.prev = Previous(inv[p])]
     IN  IF body.kind # "event"
         THEN Catch(p, locals)
         ELSE IF ReadsUserId(body) /\ ~body.hasMetadata
         THEN Catch(p, locals)
         ELSE IF ~isSubscription(body) /\ body.eventType = "checkout.completed"
         THEN Await(p, [locals EXCEPT
                          !.currentDate = now,
                          !.newPeriodEnd = setMonth(now, getMonth(now) + 1)],
                    "getCreditUsage")
         ELSE IF isSubscription(body) /\ body.eventType = "subscription.paid"
         THEN Await(p, [locals EXCEPT
                          !.currentDate = now,
                          !.newPeriodEnd = SubNewPeriodEnd(body, now)],
                    "getUserSubscription")
         ELSE IF isSubscription(body)
                 /\ body.eventType \in {"subscription.canceled", "subscription.expired"}
         THEN Await(p, locals, "updateUserSubscription")
         ELSE Return(p, locals)

\* reading .period_end of the value a lookup without a row resolves to
ReadsPeriodEndOfNothing(webhook, credit_usage_from_db) ==
  ~isSubscription(webhook) /\ credit_usage_from_db = Null

\* await getCreditUsageByUserId(userId), and the code up to the next await
GetCreditUsage(p) ==
  /\ inv[p].pc = "getCreditUsage"
  /\ UNCHANGED <<credit_usage, user_subscriptions, payment_history, clock,
                 received, failures>>
  /\ LET webhook == inv[p].webhook
         userId == IF isSubscription(webhook) THEN webhook.metadata.userId
                   ELSE webhook.request_id
         found == getCreditUsageByUserId(credit_usage, userId)
         locals == [inv[p] EXCEPT !.credit_usage_from_db = found]
     IN  IF ReadsPeriodEndOfNothing(webhook, found)
         THEN Catch(p, locals)
         ELSE Await(p,
                    IF isSubscription(webhook) THEN locals
                    ELSE [locals EXCEPT !.newPeriodEnd =
                            OneTimeNewPeriodEnd(inv[p].currentDate, found)],
                    IF found = Null THEN "createCreditUsage" ELSE "updateCreditUsage")

\* a renewal that adds its credits to the stored total as a top-up does
CreditUsageArgumentToppingUp(locals) ==
  IF isSubscription(locals.webhook)
  THEN LET reset == SubCreditUsage(locals.webhook, locals.currentDate,
                                   locals.newPeriodEnd)
       IN  IF locals.credit_usage_from_db = Null THEN reset
           ELSE [reset EXCEPT !.credit_total =
                                locals.credit_usage_from_db.credit_total + @]
  ELSE OneTimeCreditUsage(locals.webhook, locals.currentDate, locals.newPeriodEnd,
                          locals.credit_usage_from_db)

\* the CreditUsage the invocation hands to the store
CreditUsageArgument(locals) ==
  IF isSubscription(locals.webhook)
  THEN SubCreditUsage(locals.webhook, locals.currentDate, locals.newPeriodEnd)
  ELSE OneTimeCreditUsage(locals.webhook, locals.currentDate, locals.newPeriodEnd,
                          locals.credit_usage_from_db)

\* what follows the write of the credit-usage record
AfterCreditUsage(p) ==
  IF isSubscription(inv[p].webhook)
  THEN Return(p, inv[p])
  ELSE Await(p, inv[p], "createPaymentHistory")

CreateCreditUsage(p) ==
  /\ inv[p].pc = "createCreditUsage"
  /\ credit_usage' = createCreditUsage(credit_usage, CreditUsageArgument(inv[p]))
  /\ UNCHANGED <<user_subscriptions, payment_history, clock, received, failures>>
  /\ AfterCreditUsage(p)

UpdateCreditUsage(p) ==
  /\ inv[p].pc = "updateCreditUsage"
  /\ credit_usage' = updateCreditUsage(credit_usage, CreditUsageArgument(inv[p]))
  /\ UNCHANGED <<user_subscriptions, payment_history, clock, received, failures>>
  /\ AfterCreditUsage(p)

CreatePaymentHistory(p) ==
  /\ inv[p].pc = "createPaymentHistory"
  /\ payment_history' =
       createPaymentHistory(payment_history, OneTimePaymentHistory(inv[p].webhook))
  /\ UNCHANGED <<credit_usage, user_subscriptions, clock, received, failures>>
  /\ Return(p, inv[p])

\* a subscription.paid step that creates a record whatever the lookup returned
GetUserSubscriptionThenCreate(p) ==
  /\ inv[p].pc = "getUserSubscription"
  /\ UNCHANGED <<credit_usage, user_subscriptions, payment_history, clock,
                 received, failures>>
  /\ Await(p, inv[p], "createUserSubscription")

\* await getUserSubscriptionByUserId(userId), and the choice of create or update
GetUserSubscription(p) ==
  /\ inv[p].pc = "getUserSubscription"
  /\ UNCHANGED <<credit_usage, user_subscriptions, payment_history, clock,
                 received, failures>>
  /\ LET existingSubscription ==
           getUserSubscriptionByUserId(user_subscriptions, inv[p].webhook.metadata.userId)
     IN  Await(p, inv[p],
               IF Len(existingSubscription) = 0 THEN "createUserSubscription"
               ELSE "updateUserSubscription")

CreateUserSubscription(p) ==
  /\ inv[p].pc = "createUserSubscription"
  /\ user_subscriptions' =
       createUserSubscription(user_subscriptions,
         SubUserSubscription(inv[p].webhook, inv[p].currentDate, inv[p].newPeriodEnd))
  /\ UNCHANGED <<credit_usage, payment_history, clock, received, failures>>
  /\ Await(p, inv[p], "getCreditUsage")

\* the UserSubscription handed to updateUserSubscription
UserSubscriptionArgument(locals) ==
  IF locals.webhook.eventType = "subscription.paid"
  THEN SubUserSubscription(locals.webhook, locals.currentDate, locals.newPeriodEnd)
  ELSE IF locals.webhook.eventType = "subscription.canceled"
  THEN CanceledUpdate(locals.webhook)
  ELSE ExpiredUpdate(locals.webhook)

\* an update that leaves a record alone once it is EXPIRED
UpdateUserSubscriptionUnlessExpired(p) ==
  /\ inv[p].pc = "updateUserSubscription"
  /\ LET argument == UserSubscriptionArgument(inv[p])
         expired ==
           \E i \in DOMAIN user_subscriptions :
             /\ user_subscriptions[i].status = EXPIRED
             /\ \/ user_subscriptions[i].user_uuid = argument.user_uuid
                \/ user_subscriptions[i].stripe_subscription_id
                     = argument.stripe_subscription_id
     IN  user_subscriptions' =
           IF expired THEN user_subscriptions
           ELSE updateUserSubscription(user_subscriptions, argument)
  /\ UNCHANGED <<credit_usage, payment_history, clock, received, failures>>
  /\ IF inv[p].webhook.eventType = "subscription.paid"
     THEN Await(p, inv[p], "getCreditUsage")
     ELSE Return(p, inv[p])

UpdateUserSubscription(p) ==
  /\ inv[p].pc = "updateUserSubscription"
  /\ user_subscriptions' =
       updateUserSubscription(user_subscriptions, UserSubscriptionArgument(inv[p]))
  /\ UNCHANGED <<credit_usage, payment_history, clock, received, failures>>
  /\ IF inv[p].webhook.eventType = "subscription.paid"
     THEN Await(p, inv[p], "getCreditUsage")
     ELSE Return(p, inv[p])

\* a rejected store call that undoes what the invocation wrote before it
StoreRejectsRollingBack(p) ==
  /\ inv[p].pc \in StoreCalls
  /\ failures < MaxFailures
  /\ failures' = failures + 1
  /\ credit_usage' = inv[p].pre.credit_usage
  /\ user_subscriptions' = inv[p].pre.user_subscriptions
  /\ payment_history' = inv[p].pre.payment_history
  /\ UNCHANGED <<clock, received>>
  /\ Catch(p, [inv[p] EXCEPT !.rejected = TRUE, !.rejectedAt = inv[p].pc])

\* an awaited store call rejects: the rest of the handler is skipped
StoreRejects(p) ==
  /\ inv[p].pc \in StoreCalls
  /\ failures < MaxFailures
  /\ failures' = failures + 1
  /\ UNCHANGED <<credit_usage, user_subscriptions, payment_history, clock, received>>
  /\ Catch(p, [inv[p] EXCEPT !.rejected = TRUE, !.rejectedAt = inv[p].pc])

\* ------------------------------------------------------- specifications
\* rows the tables may hold before the first delivery
InitialCreditUsage ==
  [user_uuid |-> "u1", credit_used |-> 30, credit_total |-> 100,
   period_start |-> MakeDay(2024, 0, 15), period_end |-> MakeDay(2024, 2, 15)]

InitialUserSubscription ==
  [user_uuid |-> "u1", subscription_plan_id |-> 1, status |-> ACTIVE,
   current_period_start |-> MakeDay(2024, 0, 15),
   current_period_end |-> MakeDay(2024, 1, 15),
   stripe_subscription_id |-> "obj_1", stripe_customer_id |-> "cus_1"]

\* no call of hasSuccessfulPaymentByUserId yet
NotAsked == [user_id |-> Undef, result |-> FALSE, rows |-> 0]

Init ==
  /\ credit_usage \in {<<>>, <<InitialCreditUsage>>}
  /\ user_subscriptions \in {<<>>, <<InitialUserSubscription>>}
  /\ payment_history = <<>>
  /\ clock = MakeDay(2024, 0, 31)
  /\ inv = [p \in Procs |-> Idle]
  /\ received = 0
  /\ failures = 0
  /\ oneTimeOk = 0
  /\ asked = NotAsked

Step(p) ==
  \/ GetCreditUsage(p)
  \/ CreateCreditUsage(p)
  \/ UpdateCreditUsage(p)
  \/ CreatePaymentHistory(p)
  \/ GetUserSubscription(p)
  \/ CreateUserSubscription(p)
  \/ UpdateUserSubscription(p)
  \/ StoreRejects(p)

\* deliveries processed one after another
Next ==
  \/ \E body \in Bodies, now \in Clock : Receive(1, body, now)
  \/ Step(1)

Spec == Init /\ [][Next]_vars

\* the deliveries that are received while another invocation is running
ConcBodies ==
  {Event("checkout.completed", "one-time", "u1", "obj_1", FALSE, EmptyMetadata),
   Event("checkout.completed", "one-time", "u1", "obj_2", TRUE, FullMetadata("u1")),
   Event("checkout.completed", "one-time", "u2", "obj_2", TRUE, FullMetadata("u1")),
   Event("subscription.paid", "recurring", "u2", "obj_1", TRUE, OnlyUser("u1")),
   Event("subscription.paid", "recurring", "u2", "obj_2", TRUE, FullMetadata("u1")),
   Event("subscription.paid", "recurring", "u2", "obj_2", TRUE, FullMetadata("u2")),
   Event("subscription.canceled", "recurring", "u2", "obj_1", TRUE, FullMetadata("u1")),
   Event("subscription.expired", "recurring", "u2", "obj_2", TRUE, FullMetadata("u1"))}

\* deliveries whose invocations overlap: every await is a point of interleaving
NextConc ==
  \E p \in Procs :
    \/ \E body \in ConcBodies, now \in Clock : Receive(p, body, now)
    \/ Step(p)

SpecConc == Init /\ [][NextConc]_vars

\* payment_history rows that code other than the handler inserts
PaymentRows ==
  {[user_id |-> u, subscription_plans_id |-> 1, creem_payment_intent_id |-> "obj_1",
    amount |-> 5, interval |-> "month", status |-> status] :
     u \in Users, status \in {"success", "failed"}}
    \ {[user_id |-> "u2", subscription_plans_id |-> 1,
         creem_payment_intent_id |-> "obj_1", amount |-> 5, interval |-> "month",
         status |-> "failed"]}

\* the deliveries handled next to the payment_history model
PaymentBodies ==
  {Event("checkout.completed", "one-time", "u1", "obj_2", FALSE, EmptyMetadata),
   Event("subscription.paid", "recurring", "u2", "obj_2", TRUE, FullMetadata("u1"))}

\* payment_history model: create(paymentHistory)
InsertPayment(row) ==
  /\ Len(payment_history) < MaxRows
  /\ payment_history' = create(payment_history, row)
  /\ UNCHANGED <<credit_usage, user_subscriptions, clock, inv, received,
                 failures, oneTimeOk, asked>>

\* payment_history model: hasSuccessfulPaymentByUserId(user_id), a SELECT
HasSuccessfulPayment(user_id) ==
  /\ asked' = [user_id |-> user_id,
               result |-> hasSuccessfulPaymentByUserId(payment_history, user_id),
               rows |-> Len(payment_history)]
  /\ UNCHANGED <<credit_usage, user_subscriptions, payment_history, clock, inv,
                 received, failures, oneTimeOk>>

\* the handler's deliveries, one at a time, next to the payment_history model
NextPayments ==
  \/ \E body \in PaymentBodies : Receive(1, body, clock)
  \/ Step(1)
  \/ \E row \in PaymentRows : InsertPayment(row)
  \/ \E user_id \in Users : HasSuccessfulPayment(user_id)

SpecPayments == Init /\ [][NextPayments]_vars

\* ------------------------------------------------------------- properties
Done(p) == inv[p].pc = "done"

OneTimeCheckout(w) ==
  w.kind = "event" /\ w.billing_type # "recurring" /\ w.eventType = "checkout.completed"

Recurring(w, eventType) ==
  w.kind = "event" /\ w.billing_type = "recurring" /\ w.eventType = eventType

RowsOf(table, u) == SelectSeq(table, LAMBDA r : r.user_uuid = u)

OtherRows(table, u) == SelectSeq(table, LAMBDA r : r.user_uuid # u)

\* metadata.credit as a number, or the default when it is absent
CreditOr(w, default) ==
  IF w.hasMetadata /\ w.metadata.credit # Undef
  THEN parseInt(w.metadata.credit) ELSE default

PlanOr(w, default) ==
  IF w.hasMetadata /\ w.metadata.subscriptionPlanId # Undef
  THEN parseInt(w.metadata.subscriptionPlanId) ELSE default

PlusOneMonth(t) == setMonth(t, getMonth(t) + 1)

PlusOneYear(t) == setFullYear(t, getFullYear(t) + 1)

Later(a, b) == IF a > b THEN a ELSE b

\* C1: a one-time checkout.completed delivery for a user without a
\* credit-usage record, no store call rejecting, is answered 200 and leaves
\* exactly one credit-usage record of the user (used 0, total metadata.credit or
\* 100, period now .. now + 1 month) and one more payment-history row, "completed".
C1_FirstPurchaseCreatesRecord ==
  \A p \in Procs :
    (Done(p) /\ OneTimeCheckout(inv[p].webhook) /\ ~inv[p].rejected
       /\ RowsOf(inv[p].pre.credit_usage, inv[p].webhook.request_id) = <<>>)
    => /\ inv[p].response = SuccessResponse
       /\ RowsOf(credit_usage, inv[p].webhook.request_id) =
            <<[user_uuid |-> inv[p].webhook.request_id,
               credit_used |-> 0,
               credit_total |-> CreditOr(inv[p].webhook, 100),
               period_start |-> inv[p].currentDate,
               period_end |-> PlusOneMonth(inv[p].currentDate)]>>
       /\ Len(payment_history) = Len(inv[p].pre.payment_history) + 1
       /\ payment_history[Len(payment_history)].status = "completed"

\* C2: a one-time checkout.completed delivery answered 200 for a user with a
\* credit-usage record leaves credit_used and period_start as they were, adds
\* metadata.credit (or 100) to credit_total and sets period_end to the later of
\* the existing period_end and now + 1 month.
C2_TopUpIsAdditive ==
  \A p \in Procs :
    (Done(p) /\ OneTimeCheckout(inv[p].webhook)
       /\ inv[p].response = SuccessResponse
       /\ RowsOf(inv[p].pre.credit_usage, inv[p].webhook.request_id) # <<>>)
    => LET u == inv[p].webhook.request_id
           old == RowsOf(inv[p].pre.credit_usage, u)[1]
       IN  /\ RowsOf(credit_usage, u) =
                <<[old EXCEPT
                     !.credit_total = old.credit_total + CreditOr(inv[p].webhook, 100),
                     !.period_end = Later(old.period_end,
                                          PlusOneMonth(inv[p].currentDate))]>>
           /\ OtherRows(credit_usage, u) = OtherRows(inv[p].pre.credit_usage, u)

\* C2 witness: a top-up with metadata.credit on a record whose period ends
\* later than now + 1 month
C2_Witness ==
  \E p \in Procs :
    /\ Done(p) /\ OneTimeCheckout(inv[p].webhook)
    /\ inv[p].response = SuccessResponse
    /\ inv[p].webhook.hasMetadata /\ inv[p].webhook.metadata.credit = "50"
    /\ RowsOf(inv[p].pre.credit_usage, inv[p].webhook.request_id) # <<>>
    /\ RowsOf(inv[p].pre.credit_usage, inv[p].webhook.request_id)[1].period_end
         > PlusOneMonth(inv[p].currentDate)
    /\ RowsOf(inv[p].pre.credit_usage, inv[p].webhook.request_id)[1].credit_used > 0

\* the subscription record a subscription.paid delivery writes
PaidSubscription(w, now) ==
  [user_uuid |-> w.metadata.userId,
   subscription_plan_id |-> PlanOr(w, 1),
   status |-> ACTIVE,
   current_period_start |-> now,
   current_period_end |-> IF w.metadata.interval = "year" THEN PlusOneYear(now)
                          ELSE PlusOneMonth(now),
   stripe_subscription_id |-> w.id,
   stripe_customer_id |-> w.customer_id]

\* C3: a subscription.paid delivery of a recurring product, answered 200, for a
\* user (metadata.userId) without a subscription record adds exactly one record
\* for that user: ACTIVE, from now to now + 1 year (interval "year") or now + 1
\* month, with the delivery's subscription id and customer id.
C3_FirstPaymentCreatesSubscription ==
  \A p \in Procs :
    (Done(p) /\ Recurring(inv[p].webhook, "subscription.paid")
       /\ inv[p].response = SuccessResponse
       /\ RowsOf(inv[p].pre.user_subscriptions, inv[p].webhook.metadata.userId) = <<>>)
    => user_subscriptions =
         Append(inv[p].pre.user_subscriptions,
                PaidSubscription(inv[p].webhook, inv[p].currentDate))

\* C3 witness: a yearly subscription created on a leap day
C3_Witness ==
  \E p \in Procs :
    /\ Done(p) /\ Recurring(inv[p].webhook, "subscription.paid")
    /\ inv[p].response = SuccessResponse
    /\ inv[p].webhook.metadata.userId \in Users
    /\ inv[p].webhook.metadata.interval = "year"
    /\ inv[p].currentDate = MakeDay(2024, 1, 29)
    /\ RowsOf(inv[p].pre.user_subscriptions, inv[p].webhook.metadata.userId) = <<>>
    /\ Len(RowsOf(user_subscriptions, inv[p].webhook.metadata.userId)) = 1

\* C4: after a subscription.paid delivery answered 200 the user's credit-usage
\* record is used 0, total metadata.credit (or 1000), period = the new
\* subscription period, whatever it was before and whether or not it or a
\* subscription record existed; an existing subscription record is overwritten.
C4_RenewalResets ==
  \A p \in Procs :
    (Done(p) /\ Recurring(inv[p].webhook, "subscription.paid")
       /\ inv[p].response = SuccessResponse)
    => LET w == inv[p].webhook
           u == w.metadata.userId
           sub == PaidSubscription(w, inv[p].currentDate)
       IN  /\ RowsOf(credit_usage, u) =
                <<[user_uuid |-> u,
                   credit_used |-> 0,
                   credit_total |-> CreditOr(w, 1000),
                   period_start |-> sub.current_period_start,
                   period_end |-> sub.current_period_end]>>
           /\ OtherRows(credit_usage, u) = OtherRows(inv[p].pre.credit_usage, u)
           /\ RowsOf(user_subscriptions, u) = <<sub>>
           /\ OtherRows(user_subscriptions, u) =
                OtherRows(inv[p].pre.user_subscriptions, u)

\* C4 witness: a renewal without metadata.credit over a used, topped-up record
\* and an existing subscription
C4_Witness ==
  \E p \in Procs :
    /\ Done(p) /\ Recurring(inv[p].webhook, "subscription.paid")
    /\ inv[p].response = SuccessResponse
    /\ inv[p].webhook.metadata.credit = Undef
    /\ LET u == inv[p].webhook.metadata.userId
       IN  /\ RowsOf(inv[p].pre.user_subscriptions, u) # <<>>
           /\ RowsOf(inv[p].pre.credit_usage, u) # <<>>
           /\ RowsOf(inv[p].pre.credit_usage, u)[1].credit_used > 0
           /\ RowsOf(inv[p].pre.credit_usage, u)[1].credit_total > 100

EndStatus(w) == IF w.eventType = "subscription.canceled" THEN CANCELLED ELSE EXPIRED

IsEnd(w) ==
  Recurring(w, "subscription.canceled") \/ Recurring(w, "subscription.expired")

\* C5: a subscription.canceled (subscription.expired) delivery of a recurring
\* product changes nothing but the status of the subscription records with the
\* delivery's external subscription id, which is CANCELLED (EXPIRED) once the
\* delivery is answered 200: plan, period and external ids of every record,
\* the credit-usage store and the payment-history store stay as they were.
C5_EndOnlySetsStatus ==
  \A p \in Procs :
    (inv[p].pc # "idle" /\ IsEnd(inv[p].webhook))
    => LET w == inv[p].webhook
           before == inv[p].pre.user_subscriptions
       IN  /\ credit_usage = inv[p].pre.credit_usage
           /\ payment_history = inv[p].pre.payment_history
           /\ Len(user_subscriptions) = Len(before)
           /\ \A i \in DOMAIN before :
                /\ [user_subscriptions[i] EXCEPT !.status = before[i].status] = before[i]
                /\ user_subscriptions[i].status \in {before[i].status, EndStatus(w)}
                /\ before[i].stripe_subscription_id # w.id
                     => user_subscriptions[i] = before[i]
                /\ (Done(p) /\ inv[p].response = SuccessResponse
                      /\ before[i].stripe_subscription_id = w.id)
                     => user_subscriptions[i].status = EndStatus(w)

\* C5 witness: a cancellation answered 200 that turned an ACTIVE record CANCELLED
C5_Witness ==
  \E p \in Procs :
    /\ Done(p) /\ Recurring(inv[p].webhook, "subscription.canceled")
    /\ inv[p].response = SuccessResponse
    /\ \E i \in DOMAIN user_subscriptions :
         /\ inv[p].pre.user_subscriptions[i].status = ACTIVE
         /\ user_subscriptions[i].status = CANCELLED
         /\ user_subscriptions[i].current_period_end
              = inv[p].pre.user_subscriptions[i].current_period_end

Handled(w) ==
  \/ OneTimeCheckout(w)
  \/ Recurring(w, "subscription.paid")
  \/ Recurring(w, "subscription.canceled")
  \/ Recurring(w, "subscription.expired")

\* C6: a delivery whose eventType its billing-type branch does not handle reads
\* and writes no store (it awaits no store call, all three stores are as
\* before) and is answered with the 200 acknowledgement.
C6_UnhandledIsAcknowledged ==
  \A p \in Procs :
    (inv[p].pc # "idle" /\ inv[p].webhook.kind = "event" /\ ~Handled(inv[p].webhook))
    => /\ Done(p)
       /\ inv[p].response = SuccessResponse
       /\ Snapshot = inv[p].pre

\* C6 witness: subscription.paid on a one-time product, with records in the stores
C6_Witness ==
  \E p \in Procs :
    /\ Done(p)
    /\ inv[p].webhook.kind = "event"
    /\ inv[p].webhook.eventType = "subscription.paid"
    /\ inv[p].webhook.billing_type = "one-time"
    /\ inv[p].response = SuccessResponse
    /\ credit_usage # <<>> /\ user_subscriptions # <<>> /\ payment_history # <<>>

\* C7: a handled delivery without metadata, no store call rejecting (and, for
\* checkout.completed, the user having a credit-usage record), is answered 200.
C7_AbsentMetadataIsDefaulted ==
  \A p \in Procs :
    (Done(p) /\ Handled(inv[p].webhook) /\ ~inv[p].webhook.hasMetadata
       /\ ~inv[p].rejected
       /\ (OneTimeCheckout(inv[p].webhook)
             => RowsOf(inv[p].pre.credit_usage, inv[p].webhook.request_id) # <<>>))
    => inv[p].response = SuccessResponse

\* C8: POST answers 500 "Webhook processing failed" exactly when a step threw
\* and 200 "Webhook received successfully" otherwise; a body without
\* object.product is answered 500 and no store is changed.
C8_TwoOutcomes ==
  \A p \in Procs :
    /\ ~Done(p) => inv[p].response = NoResponse
    /\ Done(p) =>
         /\ inv[p].response \in {SuccessResponse, FailureResponse}
         /\ inv[p].response = FailureResponse <=> inv[p].threw
         /\ inv[p].rejected => inv[p].threw
         /\ inv[p].webhook.kind # "event" => inv[p].threw
         /\ inv[p].webhook.kind = "no_product" =>
              /\ inv[p].response.status = 500
              /\ inv[p].response.text = "Webhook processing failed"
              /\ Snapshot = inv[p].pre

\* C8 witness: a body without object.product answered 500, the stores holding records
C8_Witness ==
  \E p \in Procs :
    /\ Done(p)
    /\ inv[p].webhook.kind = "no_product"
    /\ inv[p].response = FailureResponse
    /\ credit_usage # <<>> /\ user_subscriptions # <<>>

\* C9: a one-time checkout.completed delivery answered 200 appends exactly one
\* payment-history row (status "completed", payment intent = the object id,
\* plan, amount and interval from metadata or 1, 0 and "month"); no other
\* delivery changes the store, so the rows are as many as the one-time
\* checkout.completed deliveries answered 200.
C9_PaymentHistoryOnlyOneTime ==
  /\ Len(payment_history) = oneTimeOk
  /\ \A p \in Procs :
       LET w == inv[p].webhook
       IN  /\ (Done(p) /\ OneTimeCheckout(w) /\ inv[p].response = SuccessResponse)
                => payment_history =
                     Append(inv[p].pre.payment_history,
                            [user_id |-> w.request_id,
                             subscription_plans_id |-> PlanOr(w, 1),
                             creem_payment_intent_id |-> w.id,
                             amount |-> IF w.hasMetadata /\ w.metadata.amount # Undef
                                        THEN parseFloat(w.metadata.amount) ELSE 0,
                             interval |-> IF w.hasMetadata /\ w.metadata.interval # Undef
                                          THEN w.metadata.interval ELSE "month",
                             status |-> "completed"])
           /\ (inv[p].pc # "idle"
                 /\ ~(Done(p) /\ OneTimeCheckout(w) /\ inv[p].response = SuccessResponse))
                => payment_history = inv[p].pre.payment_history

\* C9 witness: the second row, written with the defaults, and a subscription
\* record in the store
C9_Witness ==
  \E p \in Procs :
    /\ Done(p) /\ OneTimeCheckout(inv[p].webhook)
    /\ inv[p].response = SuccessResponse
    /\ ~inv[p].webhook.hasMetadata
    /\ Len(payment_history) = 2
    /\ payment_history[2].subscription_plans_id = 1
    /\ user_subscriptions # <<>>

\* two one-time checkout.completed deliveries for one user with a credit-usage
\* record, both received before either wrote, both answered 200
Overlapped(p, q) ==
  /\ p # q
  /\ Done(p) /\ Done(q)
  /\ OneTimeCheckout(inv[p].webhook) /\ OneTimeCheckout(inv[q].webhook)
  /\ inv[p].webhook.request_id = inv[q].webhook.request_id
  /\ inv[p].response = SuccessResponse /\ inv[q].response = SuccessResponse
  /\ inv[p].pre = inv[q].pre
  /\ RowsOf(inv[p].pre.credit_usage, inv[p].webhook.request_id) # <<>>

\* C10: when two one-time checkout.completed deliveries for a user with a
\* credit-usage record overlap and both are answered 200, the final
\* credit_total is the initial total plus the credit of both or of only one of
\* them (the read and the write of each are separate steps), credit_used is
\* unchanged and both payments are in the payment history.
C10_OverlapAddsOneOrBoth ==
  \A p, q \in Procs :
    Overlapped(p, q) =>
      LET u == inv[p].webhook.request_id
          old == RowsOf(inv[p].pre.credit_usage, u)[1]
          new == RowsOf(credit_usage, u)[1]
          cp == CreditOr(inv[p].webhook, 100)
          cq == CreditOr(inv[q].webhook, 100)
      IN  /\ new.credit_total \in {old.credit_total + cp + cq,
                                   old.credit_total + cp,
                                   old.credit_total + cq}
          /\ new.credit_used = old.credit_used
          /\ Len(payment_history) = Len(inv[p].pre.payment_history) + 2

\* C10 witness: the lost update, both deliveries answered 200 and the total
\* raised by the credit of one of them only
C10_Witness ==
  \E p, q \in Procs :
    /\ Overlapped(p, q)
    /\ RowsOf(credit_usage, inv[p].webhook.request_id)[1].credit_total =
         RowsOf(inv[p].pre.credit_usage, inv[p].webhook.request_id)[1].credit_total
           + CreditOr(inv[p].webhook, 100)
    /\ CreditOr(inv[q].webhook, 100) > 0

\* the store calls of the credit-usage store
CreditCalls == {"getCreditUsage", "createCreditUsage", "updateCreditUsage"}

\* C11: when a store call rejects, the delivery is answered 500, no later store
\* call of the invocation takes effect and what its earlier calls wrote stays:
\* on subscription.paid a rejected credit-usage call leaves the subscription
\* record written (ACTIVE) and the credit-usage store as before; on a one-time
\* checkout.completed a rejected createPaymentHistory leaves the top-up applied
\* and the payment history as before; a rejected first call leaves every store
\* as before.
C11_RejectionKeepsEarlierWrites ==
  \A p \in Procs :
    (Done(p) /\ inv[p].rejected) =>
      LET w == inv[p].webhook
          at == inv[p].rejectedAt
      IN  /\ inv[p].response = FailureResponse
          /\ payment_history = inv[p].pre.payment_history
          /\ (OneTimeCheckout(w) /\ at = "createPaymentHistory") =>
               LET old == RowsOf(inv[p].pre.credit_usage, w.request_id)[1]
               IN  /\ RowsOf(credit_usage, w.request_id)[1].credit_total =
                        old.credit_total + CreditOr(w, 100)
                   /\ user_subscriptions = inv[p].pre.user_subscriptions
          /\ (OneTimeCheckout(w) /\ at # "createPaymentHistory") =>
               Snapshot = inv[p].pre
          /\ (Recurring(w, "subscription.paid") /\ at \in CreditCalls) =>
               /\ RowsOf(user_subscriptions, w.metadata.userId) =
                    <<PaidSubscription(w, inv[p].currentDate)>>
               /\ credit_usage = inv[p].pre.credit_usage
          /\ (Recurring(w, "subscription.paid") /\ at \notin CreditCalls) =>
               Snapshot = inv[p].pre
          /\ IsEnd(w) => Snapshot = inv[p].pre

\* C11 witness: createPaymentHistory rejected after the top-up was written
C11_Witness ==
  \E p \in Procs :
    /\ Done(p) /\ inv[p].rejected
    /\ OneTimeCheckout(inv[p].webhook)
    /\ inv[p].rejectedAt = "createPaymentHistory"
    /\ inv[p].response = FailureResponse
    /\ credit_usage # inv[p].pre.credit_usage
    /\ payment_history = inv[p].pre.payment_history

\* the delivery answered just before this one was a one-time checkout.completed
\* for the same user, answered 200
SecondTopUp(p) ==
  /\ Done(p) /\ OneTimeCheckout(inv[p].webhook)
  /\ inv[p].response = SuccessResponse
  /\ OneTimeCheckout(inv[p].prev.webhook)
  /\ inv[p].prev.response = SuccessResponse
  /\ inv[p].prev.webhook.request_id = inv[p].webhook.request_id

\* C12: deliveries are not deduplicated: after two one-time checkout.completed
\* deliveries in a row for a user with a credit-usage record, the same delivery
\* twice included, credit_total is the initial total plus both credits (100
\* for a delivery without metadata.credit), credit_used is the initial one and
\* two payment-history rows were appended.
C12_NoDeduplication ==
  \A p \in Procs :
    SecondTopUp(p) =>
      LET u == inv[p].webhook.request_id
          initial == RowsOf(inv[p].prev.credit_usage, u)[1]
          final == RowsOf(credit_usage, u)[1]
      IN  /\ final.credit_total =
               initial.credit_total + CreditOr(inv[p].prev.webhook, 100)
                                    + CreditOr(inv[p].webhook, 100)
          /\ final.credit_used = initial.credit_used
          /\ Len(payment_history) = inv[p].prev.rows + 2
          /\ payment_history[Len(payment_history)].creem_payment_intent_id
               = inv[p].webhook.id
          /\ payment_history[Len(payment_history) - 1].creem_payment_intent_id
               = inv[p].prev.webhook.id

\* C12 witness: the same delivery, without metadata.credit, received twice
C12_Witness ==
  \E p \in Procs :
    /\ SecondTopUp(p)
    /\ inv[p].prev.webhook = inv[p].webhook
    /\ ~inv[p].webhook.hasMetadata
    /\ RowsOf(credit_usage, inv[p].webhook.request_id)[1].credit_total = 300

\* C13: a one-time checkout.completed sets the period_end of the user's
\* credit-usage record to the later of the existing period_end and now + 1
\* month, so it never decreases, over one delivery and over two in a row;
\* subscription.paid sets it to now + 1 month or now + 1 year whatever it was.
C13_PeriodEndNeverDecreases ==
  \A p \in Procs :
    (Done(p) /\ inv[p].response = SuccessResponse) =>
      LET w == inv[p].webhook
          now == inv[p].currentDate
      IN  /\ OneTimeCheckout(w) =>
               LET old == RowsOf(inv[p].pre.credit_usage, w.request_id)[1]
                   new == RowsOf(credit_usage, w.request_id)[1]
               IN  /\ new.period_end = Later(old.period_end, PlusOneMonth(now))
                   /\ new.period_end >= old.period_end
          /\ SecondTopUp(p) =>
               LET initial == RowsOf(inv[p].prev.credit_usage, w.request_id)[1]
                   final == RowsOf(credit_usage, w.request_id)[1]
               IN  /\ inv[p].prev.currentDate <= now
                   /\ final.period_end >= initial.period_end
                   /\ final.period_end =
                        Later(Later(initial.period_end,
                                    PlusOneMonth(inv[p].prev.currentDate)),
                              PlusOneMonth(now))
          /\ Recurring(w, "subscription.paid") =>
               RowsOf(credit_usage, w.metadata.userId)[1].period_end
                 = IF Meta(w, "interval") = "year"
                   THEN PlusOneYear(now) ELSE PlusOneMonth(now)

\* C13 witness: of two one-time checkouts in a row the first keeps the later
\* existing period_end and the second, a month on, extends it
C13_Witness ==
  \E p \in Procs :
    /\ SecondTopUp(p)
    /\ LET u == inv[p].webhook.request_id
           initial == RowsOf(inv[p].prev.credit_usage, u)[1]
           old == RowsOf(inv[p].pre.credit_usage, u)[1]
           new == RowsOf(credit_usage, u)[1]
       IN  /\ old.period_end = initial.period_end
           /\ initial.period_end > PlusOneMonth(inv[p].prev.currentDate)
           /\ new.period_end = PlusOneMonth(inv[p].currentDate)
           /\ new.period_end > old.period_end

PaymentsNotOf(table, u) == SelectSeq(table, LAMBDA r : r.user_id # u)

\* the three stores hold for every user but u what they held on receipt
OthersUnchanged(p, u) ==
  /\ OtherRows(credit_usage, u) = OtherRows(inv[p].pre.credit_usage, u)
  /\ OtherRows(user_subscriptions, u) = OtherRows(inv[p].pre.user_subscriptions, u)
  /\ PaymentsNotOf(payment_history, u) = PaymentsNotOf(inv[p].pre.payment_history, u)

\* C14: a one-time checkout.completed writes for object.request_id and a
\* subscription.paid for metadata.userId, whatever the other field names; after
\* any delivery, answered 200 or 500, the records of every other user are as
\* they were (subscription.canceled / subscription.expired change nothing but
\* the status of the records carrying the delivery's subscription id).
C14_OnlyTheEventsUser ==
  \A p \in Procs :
    Done(p) =>
      LET w == inv[p].webhook
          ok == inv[p].response = SuccessResponse
      IN  /\ OneTimeCheckout(w) =>
               /\ OthersUnchanged(p, w.request_id)
               /\ ok => /\ RowsOf(credit_usage, w.request_id)[1].credit_total
                             = RowsOf(inv[p].pre.credit_usage, w.request_id)[1].credit_total
                                 + CreditOr(w, 100)
                        /\ payment_history[Len(payment_history)].user_id = w.request_id
          /\ Recurring(w, "subscription.paid") =>
               /\ OthersUnchanged(p, w.metadata.userId)
               /\ ok => /\ RowsOf(user_subscriptions, w.metadata.userId)
                             = <<PaidSubscription(w, inv[p].currentDate)>>
                        /\ RowsOf(credit_usage, w.metadata.userId)[1].period_start
                             = inv[p].currentDate
          /\ IsEnd(w) =>
               /\ credit_usage = inv[p].pre.credit_usage
               /\ payment_history = inv[p].pre.payment_history
               /\ Len(user_subscriptions) = Len(inv[p].pre.user_subscriptions)
               /\ \A i \in DOMAIN user_subscriptions :
                    \/ user_subscriptions[i] = inv[p].pre.user_subscriptions[i]
                    \/ /\ user_subscriptions[i].stripe_subscription_id = w.id
                       /\ user_subscriptions[i] =
                            [inv[p].pre.user_subscriptions[i] EXCEPT
                               !.status = user_subscriptions[i].status]
          /\ ~(OneTimeCheckout(w) \/ Recurring(w, "subscription.paid") \/ IsEnd(w)) =>
               Snapshot = inv[p].pre

\* C14 witness: a one-time checkout whose request_id is u2 and whose
\* metadata.userId is u1 tops up u2's record and leaves u1's records alone
C14_Witness ==
  \E p \in Procs :
    /\ Done(p) /\ OneTimeCheckout(inv[p].webhook)
    /\ inv[p].response = SuccessResponse
    /\ inv[p].webhook.request_id = "u2"
    /\ inv[p].webhook.hasMetadata /\ inv[p].webhook.metadata.userId = "u1"
    /\ RowsOf(credit_usage, "u1") # <<>>
    /\ RowsOf(user_subscriptions, "u1") # <<>>
    /\ RowsOf(credit_usage, "u1") = RowsOf(inv[p].pre.credit_usage, "u1")
    /\ RowsOf(credit_usage, "u2") # RowsOf(inv[p].pre.credit_usage, "u2")

\* C15: every subscription record's status is ACTIVE, CANCELLED or EXPIRED,
\* and the last delivery wins whatever the status was: after subscription.paid
\* answered 200 the user's record is ACTIVE, after subscription.canceled
\* (subscription.expired) answered 200 the records with the delivery's
\* subscription id are CANCELLED (EXPIRED).
C15_StatusLastWriteWins ==
  /\ \A i \in DOMAIN user_subscriptions :
       user_subscriptions[i].status \in {ACTIVE, CANCELLED, EXPIRED}
  /\ \A p \in Procs :
       (Done(p) /\ inv[p].response = SuccessResponse) =>
         LET w == inv[p].webhook
         IN  /\ Recurring(w, "subscription.paid") =>
                  /\ RowsOf(user_subscriptions, w.metadata.userId) # <<>>
                  /\ \A i \in DOMAIN user_subscriptions :
                       user_subscriptions[i].user_uuid = w.metadata.userId
                         => user_subscriptions[i].status = ACTIVE
             /\ IsEnd(w) =>
                  \A i \in DOMAIN user_subscriptions :
                    user_subscriptions[i].stripe_subscription_id = w.id
                      => user_subscriptions[i].status = EndStatus(w)

\* a delivery answered 200 found the status from in a record it addresses and
\* left the status to there
Overwrote(p, from, to) ==
  /\ Done(p) /\ inv[p].response = SuccessResponse
  /\ \E i \in DOMAIN user_subscriptions :
       /\ i \in DOMAIN inv[p].pre.user_subscriptions
       /\ inv[p].pre.user_subscriptions[i].status = from
       /\ user_subscriptions[i].status = to
       /\ user_subscriptions[i].user_uuid = inv[p].pre.user_subscriptions[i].user_uuid

\* C15 witness: subscription.paid arriving after subscription.expired makes
\* the record ACTIVE again
C15_Witness ==
  \E p \in Procs :
    /\ Recurring(inv[p].webhook, "subscription.paid")
    /\ Overwrote(p, EXPIRED, ACTIVE)

\* subscription.canceled arriving after subscription.expired
C15_CanceledAfterExpired ==
  \E p \in Procs :
    /\ Recurring(inv[p].webhook, "subscription.canceled")
    /\ Overwrote(p, EXPIRED, CANCELLED)

\* subscription.paid arriving after subscription.canceled
C15_PaidAfterCanceled ==
  \E p \in Procs :
    /\ Recurring(inv[p].webhook, "subscription.paid")
    /\ Overwrote(p, CANCELLED, ACTIVE)

\* the user a handled delivery names
UserOf(w) == IF OneTimeCheckout(w) THEN w.request_id ELSE w.metadata.userId

\* C16: with deliveries handled one after another every user has at most one
\* subscription record and at most one credit-usage record; a record is only
\* created when the store holds none for the user, and subscription.canceled /
\* subscription.expired create none.
C16_OneRecordPerUser ==
  /\ \A u \in Users \cup {Undef} :
       /\ Len(RowsOf(user_subscriptions, u)) <= 1
       /\ Len(RowsOf(credit_usage, u)) <= 1
  /\ \A p \in {1} :
       LET w == inv[p].webhook
       IN  /\ inv[p].pc = "createUserSubscription" =>
                /\ Recurring(w, "subscription.paid")
                /\ RowsOf(user_subscriptions, w.metadata.userId) = <<>>
           /\ inv[p].pc = "createCreditUsage" =>
                /\ inv[p].credit_usage_from_db = Null
                /\ RowsOf(credit_usage, UserOf(w)) = <<>>
           /\ (Done(p) /\ IsEnd(w)) =>
                /\ Len(user_subscriptions) = Len(inv[p].pre.user_subscriptions)
                /\ \A u \in Users \cup {Undef} :
                     RowsOf(inv[p].pre.user_subscriptions, u) = <<>>
                       => RowsOf(user_subscriptions, u) = <<>>

\* C16 witness: the second of two subscription.paid deliveries for a user who
\* had no record before the first finds one record of each kind and leaves one
C16_Witness ==
  /\ Done(1) /\ inv[1].response = SuccessResponse
  /\ Recurring(inv[1].webhook, "subscription.paid")
  /\ Recurring(inv[1].prev.webhook, "subscription.paid")
  /\ inv[1].prev.webhook.metadata.userId = inv[1].webhook.metadata.userId
  /\ RowsOf(inv[1].prev.credit_usage, inv[1].webhook.metadata.userId) = <<>>
  /\ Len(RowsOf(inv[1].pre.user_subscriptions, inv[1].webhook.metadata.userId)) = 1
  /\ Len(RowsOf(user_subscriptions, inv[1].webhook.metadata.userId)) = 1
  /\ Len(RowsOf(credit_usage, inv[1].webhook.metadata.userId)) = 1

\* subscription.canceled answered 200 for a user without a subscription record
C16_CanceledWithoutRecord ==
  /\ Done(1) /\ inv[1].response = SuccessResponse
  /\ Recurring(inv[1].webhook, "subscription.canceled")
  /\ inv[1].webhook.metadata.userId = "u1"
  /\ user_subscriptions = <<>>

\* two subscription.paid deliveries for one user, each received while the
\* stores held no subscription and no credit-usage record of the user, both
\* answered 200
FirstPaymentsOverlapped(p, q) ==
  /\ p # q
  /\ Done(p) /\ Done(q)
  /\ Recurring(inv[p].webhook, "subscription.paid")
  /\ Recurring(inv[q].webhook, "subscription.paid")
  /\ inv[p].webhook.metadata.userId = inv[q].webhook.metadata.userId
  /\ inv[p].response = SuccessResponse /\ inv[q].response = SuccessResponse
  /\ \A r \in {p, q} :
       /\ RowsOf(inv[r].pre.user_subscriptions, inv[r].webhook.metadata.userId) = <<>>
       /\ RowsOf(inv[r].pre.credit_usage, inv[r].webhook.metadata.userId) = <<>>

\* C17: after two overlapping subscription.paid deliveries for a user without
\* a subscription record and without a credit-usage record, the user has at
\* most one subscription record and at most one credit-usage record, under
\* every interleaving of the two invocations' lookups and creates.
C17_OverlapKeepsOneRecord ==
  \A p, q \in Procs :
    FirstPaymentsOverlapped(p, q) =>
      /\ Len(RowsOf(user_subscriptions, inv[p].webhook.metadata.userId)) <= 1
      /\ Len(RowsOf(credit_usage, inv[p].webhook.metadata.userId)) <= 1

\* C18: credit_used is never raised: after a delivery a user's credit_used is
\* what it was on receipt or 0; it goes to 0 only by a subscription.paid for
\* that user, and a record that appears starts at 0; credit_used <= credit_total
\* is kept by every delivery (the credit amounts delivered are not negative).
C18_CreditUsedNeverRaised ==
  /\ \A i \in DOMAIN credit_usage :
       credit_usage[i].credit_used <= credit_usage[i].credit_total
  /\ \A p \in {1} :
       Done(p) =>
         \A u \in Users \cup {Undef} :
           LET before == RowsOf(inv[p].pre.credit_usage, u)
               after == RowsOf(credit_usage, u)
               paid == /\ Recurring(inv[p].webhook, "subscription.paid")
                       /\ inv[p].webhook.metadata.userId = u
                       /\ inv[p].response = SuccessResponse
           IN  /\ Len(after) >= Len(before)
               /\ \A i \in DOMAIN before :
                    /\ after[i].credit_used \in {before[i].credit_used, 0}
                    /\ after[i].credit_used <= before[i].credit_used
                    /\ after[i].credit_used # before[i].credit_used => paid
               /\ \A i \in DOMAIN after \ DOMAIN before :
                    after[i].credit_used = 0 /\ paid

\* C18 witness: a top-up leaves credit_used at 30 and the subscription.paid
\* that follows it sets it to 0
C18_Witness ==
  /\ Done(1) /\ inv[1].response = SuccessResponse
  /\ Recurring(inv[1].webhook, "subscription.paid")
  /\ OneTimeCheckout(inv[1].prev.webhook)
  /\ inv[1].prev.webhook.request_id = inv[1].webhook.metadata.userId
  /\ RowsOf(inv[1].prev.credit_usage, inv[1].webhook.metadata.userId)[1].credit_used = 30
  /\ RowsOf(inv[1].pre.credit_usage, inv[1].webhook.metadata.userId)[1].credit_used = 30
  /\ RowsOf(credit_usage, inv[1].webhook.metadata.userId)[1].credit_used = 0

\* the delivery answered 200 just before this one, also answered 200, was the
\* same delivery at the same clock value
Redelivered(p) ==
  /\ Done(p) /\ inv[p].response = SuccessResponse
  /\ inv[p].prev.response = SuccessResponse
  /\ inv[p].prev.webhook = inv[p].webhook
  /\ inv[p].prev.currentDate = inv[p].currentDate

\* C19: a subscription.paid delivery handled a second time at the same clock
\* value leaves the subscription store and the credit-usage store as the first
\* handling left them (one record of the user, ACTIVE, same plan, period and
\* ids; credit_used 0, same credit_total); a one-time checkout.completed handled
\* a second time changes credit_total and adds a payment-history row.
C19_PaidIsIdempotent ==
  \A p \in {1} :
    Redelivered(p) =>
      LET w == inv[p].webhook
      IN  /\ Recurring(w, "subscription.paid") =>
               /\ user_subscriptions = inv[p].pre.user_subscriptions
               /\ credit_usage = inv[p].pre.credit_usage
               /\ payment_history = inv[p].pre.payment_history
               /\ RowsOf(user_subscriptions, w.metadata.userId)
                    = <<PaidSubscription(w, inv[p].currentDate)>>
               /\ Len(RowsOf(credit_usage, w.metadata.userId)) = 1
               /\ RowsOf(credit_usage, w.metadata.userId)[1].credit_used = 0
               /\ RowsOf(credit_usage, w.metadata.userId)[1].credit_total
                    = CreditOr(w, 1000)
          /\ OneTimeCheckout(w) =>
               /\ RowsOf(credit_usage, w.request_id)[1].credit_total
                    # RowsOf(inv[p].pre.credit_usage, w.request_id)[1].credit_total
               /\ payment_history # inv[p].pre.payment_history
               /\ user_subscriptions = inv[p].pre.user_subscriptions

\* C19 witness: the first handling of a subscription.paid created the user's
\* records and the second found them and left them as they were
C19_Witness ==
  /\ Redelivered(1)
  /\ Recurring(inv[1].webhook, "subscription.paid")
  /\ RowsOf(inv[1].prev.credit_usage, inv[1].webhook.metadata.userId) = <<>>
  /\ RowsOf(inv[1].pre.credit_usage, inv[1].webhook.metadata.userId) # <<>>
  /\ credit_usage = inv[1].pre.credit_usage
  /\ user_subscriptions = inv[1].pre.user_subscriptions

\* the same one-time checkout.completed handled twice
C19_CheckoutRedelivered ==
  /\ Redelivered(1)
  /\ OneTimeCheckout(inv[1].webhook)
  /\ credit_usage # inv[1].pre.credit_usage

\* the rows of payment_history at the latest hasSuccessfulPaymentByUserId call
\* (rows are only ever appended)
AskedRows == SubSeq(payment_history, 1, asked.rows)

HasRow(table, user_id, status) ==
  \E i \in DOMAIN table : table[i].user_id = user_id /\ table[i].status = status

\* C20: hasSuccessfulPaymentByUserId(u) answers true exactly when
\* payment_history holds a row with user_id = u and status 'success', whatever
\* other rows it holds, the "completed" rows of the handler included, and the
\* call changes no store.
C20_SuccessRowsOnly ==
  /\ [](asked # NotAsked =>
          /\ asked.result <=> HasRow(AskedRows, asked.user_id, "success")
          /\ (~HasRow(AskedRows, asked.user_id, "success")
                /\ HasRow(AskedRows, asked.user_id, "completed")) => ~asked.result)
  /\ [][asked' # asked =>
          /\ payment_history' = payment_history
          /\ credit_usage' = credit_usage
          /\ user_subscriptions' = user_subscriptions
          /\ asked'.result = HasRow(payment_history, asked'.user_id, "success")]_vars

\* C20 witness: the call answered false for a user whose only rows are the
\* handler's "completed" row and a "failed" row, while another user has a
\* 'success' row
C20_Witness ==
  /\ asked # NotAsked /\ ~asked.result
  /\ HasRow(AskedRows, asked.user_id, "completed")
  /\ HasRow(AskedRows, asked.user_id, "failed")
  /\ \E u \in Users \ {asked.user_id} : HasRow(AskedRows, u, "success")

\* the call answered true for a user with a 'success' row
C20_AnsweredTrue ==
  /\ asked # NotAsked /\ asked.result
  /\ HasRow(AskedRows, asked.user_id, "success")
  /\ HasRow(AskedRows, asked.user_id, "completed")

====
